---- MODULE Spec2Model ----
(***************************************************************************)
(* A model of the news-intelligence pipeline:                              *)
(*   services/news_fetcher.py       search, concurrent scrape, merge       *)
(*   services/clustering_service.py group_by_theme (DBSCAN over embeddings)*)
(*   services/rag_service.py        vector store, retrieval chain, sources *)
(*   app.py                         the Flask request handlers             *)
(*                                                                         *)
(* Python None is the string Null.  A text is a name whose length is given *)
(* by TextLen; an article is a record; an absent dict key is Null (strings) or *)
(* the empty set (theme_id, an integer when present).                      *)
(***************************************************************************)
EXTENDS Integers, Sequences, FiniteSets, TLC

\* ---------------------------------------------------------------- bounds
\* Search results per request.
MaxResults == 2
\* Articles passed to a direct call of group_by_theme.
MaxArticles == 3
\* Articles passed to a direct call of _run_rag_query.
MaxRagArticles == 2
\* Articles whose text get_news extracts.
MaxExtractArticles == 2
\* Articles get_cached_article_data clusters when building related links.
MaxLinkArticles == 6

\* ------------------------------------------------------ program constants
MinClusterLen == 50
MinChunkLen == 100
MinExtractLen == 300
min_samples == 2
chunk_size == 1500
chunk_overlap == 200
RetrieverK == 10
MaxLinks == 5

Null == "null"

\* ------------------------------------------------------------------ texts
\* Page texts, named by their length around the two thresholds of the code.
TextLen(t) ==
    CASE t = "p0" -> 0
      [] t = "pA" -> MinClusterLen
      [] t = "pB" -> MinClusterLen + 1
      [] t = "pC" -> MinChunkLen - 1
      [] t = "pD" -> MinChunkLen
      [] t = "pL" -> chunk_size + 1
      [] OTHER -> 0

Pages == {"p0", "pA", "pB", "pD"}

\* Python truthiness of an optional string.
Truthy(s) == s # Null /\ s # "" /\ ~(s \in Pages /\ TextLen(s) = 0)

SeqsUpTo(n, S) == UNION {[1..k -> S] : k \in 0..n}

\* --------------------------------------------------------------- the state
VARIABLES
    pc,                \* position of the request handler, or of a direct call
    NEWS_API_KEY,      \* news_fetcher: whether the module-level key is set
    model,             \* clustering_service: whether the model loaded
    llm,               \* rag_service: whether llm and embeddings_model loaded
    endpoint,          \* the route being served
    search_response,   \* what the search API answered
    search_requests,   \* number of requests sent to the search API
    articles_from_api, \* fetch_all_articles: the search results
    net,               \* per task: what the page fetch meets
    tasks,             \* per task: "awaiting" | "done" | "cancelled"
    scraped_results,   \* per task: the gathered result slot
    final_articles,    \* fetch_all_articles: the merged list
    gt_in,             \* group_by_theme: the articles passed in
    gt_env,            \* group_by_theme: whether it ran, and what encode met
    gt_out,            \* group_by_theme: the list returned
    related,           \* get_cached_article_data: related_links
    rq_in,             \* _run_rag_query: the articles passed in
    rq_template,       \* _run_rag_query: the prompt template
    rq_env,            \* _run_rag_query: what the external calls met
    rq_store,          \* _run_rag_query: the store built
    rag_data,          \* _run_rag_query: the result (Null answer before)
    ex_env,            \* get_news: per article, what the two extractors meet
    ex_out,            \* get_news: the texts extract_text returned so far
    response           \* the handler's HTTP response

vars == <<pc, NEWS_API_KEY, model, llm, endpoint, search_response,
          search_requests, articles_from_api, net, tasks, scraped_results,
          final_articles, gt_in, gt_env, gt_out, related, rq_in,
          rq_template, rq_env, rq_store, rag_data, ex_env, ex_out,
          response>>

fetch_vars == <<search_response, search_requests, articles_from_api, net,
                tasks, scraped_results, final_articles>>
theme_vars == <<gt_in, gt_env, gt_out, related>>
rag_vars == <<rq_in, rq_template, rq_env, rq_store, rag_data>>
globals == <<NEWS_API_KEY, model, llm>>
extract_vars == <<ex_env, ex_out>>

\* ------------------------------------------------------------- fetch_news
ApiUrls == {Null, "", "u1", "u2"}

Titles == <<"t1", "t2", "t3", "t4", "t5", "t6", "t7", "t8">>

\* One item of the search payload, as fetch_news copies it (lines 51-58).
ApiArticle(i, url) ==
    [title |-> Titles[i], url |-> url, snippet |-> "desc",
     source_name |-> "src", published_at |-> "date"]

SearchFailures == {"network_error", "http_error", "malformed_payload"}

\* What the search API can answer: a failure, or a payload of items.
SearchResponses ==
    [kind : SearchFailures, urls : {<<>>}]
    \cup [kind : {"ok"}, urls : SeqsUpTo(MaxResults, ApiUrls)]

\* A call result: a returned value or a raised exception.
Return(v) == [raised |-> FALSE, value |-> v]
Raise == [raised |-> TRUE, value |-> <<>>]

fetch_news_reraise(key, resp) ==
    IF ~key THEN Return(<<>>)
    ELSE IF resp.kind = "http_error" THEN Raise
    ELSE IF resp.kind # "ok" THEN Return(<<>>)
    ELSE Return([i \in DOMAIN resp.urls |-> ApiArticle(i, resp.urls[i])])

fetch_news(key, resp) ==
    IF ~key THEN Return(<<>>)
    ELSE IF resp.kind # "ok" THEN Return(<<>>)
    ELSE Return([i \in DOMAIN resp.urls |-> ApiArticle(i, resp.urls[i])])

\* ------------------------------------------------------ fetch_one_article
NetFailures == {"timeout", "error", "no_body"}
NetOutcomes == NetFailures \cup Pages

Snippet(text) == text \o "[:150]..."

FailedScrape(url) ==
    [url |-> url, full_text |-> Null, snippet |-> Null, status |-> "failed"]

\* client.get raises on a missing or empty url, on a timeout and on a
\* network error; soup.body is None on a page without body; every
\* exception is caught and yields the failed record.
fetch_one_article(url, outcome) ==
    IF url = Null \/ url = "" \/ outcome \in NetFailures
    THEN FailedScrape(url)
    ELSE [url |-> url, full_text |-> outcome, snippet |-> Snippet(outcome),
          status |-> "success"]

\* The slot of a task that has not settled.
Pending == [url |-> Null, full_text |-> Null, snippet |-> Null,
            status |-> "pending"]

\* asyncio.gather cancelling the other tasks when one fails.
SettleCancelSiblings(ts, i, res) ==
    IF res.status = "failed"
    THEN [j \in DOMAIN ts |-> IF ts[j] = "awaiting" /\ j # i
                              THEN "cancelled" ELSE IF j = i THEN "done" ELSE ts[j]]
    ELSE [ts EXCEPT ![i] = "done"]

\* The effect on the task table of task i returning res to gather.
SettleTask(ts, i, res) == [ts EXCEPT ![i] = "done"]

\* --------------------------------------------------- fetch_all_articles
\* scraped_map (line 136): url -> the last successful result for that url.
scraped_map(results) ==
    LET ok == {i \in DOMAIN results : results[i].status = "success"}
        urls == {results[i].url : i \in ok}
        last(u) == CHOOSE i \in ok : results[i].url = u
                      /\ \A j \in ok : results[j].url = u => j <= i
    IN [u \in urls |-> results[last(u)]]

Article(api, full_text, snippet) ==
    [title |-> api.title, url |-> api.url, snippet |-> snippet,
     source_name |-> api.source_name, published_at |-> api.published_at,
     full_text |-> full_text, theme_id |-> {}]

RECURSIVE MergeFrom(_, _, _)
MergeFrom(api, smap, i) ==
    IF i > Len(api) THEN <<>>
    ELSE LET rest == MergeFrom(api, smap, i + 1)
         IN IF api[i].url \in DOMAIN smap
            THEN <<Article(api[i], smap[api[i].url].full_text,
                           smap[api[i].url].snippet)>> \o rest
            ELSE rest

\* Step 5 of fetch_all_articles (lines 135-149).
merge(api, results) == MergeFrom(api, scraped_map(results), 1)

\* --------------------------------------------------------- group_by_theme
\* The neighbourhood of point i under DBSCAN(eps, metric='cosine'): the
\* points whose embedding is within eps.  The embedding is deterministic, so
\* equal texts are at distance 0; near holds the other pairs within eps.
Neighborhood(texts, near, i) ==
    {j \in DOMAIN texts : texts[j] = texts[i] \/ {texts[i], texts[j]} \in near}

IsCoreAlone(texts, near, i) == Cardinality(Neighborhood(texts, near, i)) >= 1

IsCore(texts, near, i) ==
    Cardinality(Neighborhood(texts, near, i)) >= min_samples

\* The unlabelled points reached from members through core points.
RECURSIVE Expand(_, _, _, _)
Expand(texts, near, members, unlabelled) ==
    LET more == {v \in unlabelled :
                    \E u \in members : IsCore(texts, near, u)
                                       /\ v \in Neighborhood(texts, near, u)}
    IN IF more \subseteq members THEN members
       ELSE Expand(texts, near, members \cup more, unlabelled)

\* The scan of DBSCAN over the points in index order: each unlabelled core
\* point seeds the next cluster label.
RECURSIVE DbscanScan(_, _, _, _, _)
DbscanScan(texts, near, i, labels, label_num) ==
    IF i > Len(texts) THEN labels
    ELSE IF labels[i] # -1 \/ ~IsCore(texts, near, i)
    THEN DbscanScan(texts, near, i + 1, labels, label_num)
    ELSE LET unlabelled == {j \in DOMAIN texts : labels[j] = -1}
             cluster == Expand(texts, near, {i}, unlabelled)
         IN DbscanScan(texts, near, i + 1,
                       [j \in DOMAIN texts |->
                           IF j \in cluster THEN label_num ELSE labels[j]],
                       label_num + 1)

\* dbscan.fit(embeddings).labels_ (lines 75-81).
DBSCAN(texts, near) ==
    DbscanScan(texts, near, 1, [j \in DOMAIN texts |-> -1], 0)

\* Line 49: content and len(content) > 50.
Clusterable(article) ==
    Truthy(article.full_text) /\ TextLen(article.full_text) > MinClusterLen

\* articles_to_cluster (lines 40-50): the positions that take part, in order.
RECURSIVE ClusterableIdx(_, _)
ClusterableIdx(articles, i) ==
    IF i > Len(articles) THEN <<>>
    ELSE IF Clusterable(articles[i])
    THEN <<i>> \o ClusterableIdx(articles, i + 1)
    ELSE ClusterableIdx(articles, i + 1)

FallbackPartial(articles) ==
    [i \in DOMAIN articles |->
        [articles[i] EXCEPT !.theme_id =
            IF Clusterable(articles[i]) THEN {i - 1} ELSE {-1}]]

\* Lines 22-27: the model failed to load.
FallbackUnique(articles) ==
    [i \in DOMAIN articles |-> [articles[i] EXCEPT !.theme_id = {i - 1}]]

\* Lines 43-44: every article starts as noise.
DefaultNoise(articles) ==
    [i \in DOMAIN articles |-> [articles[i] EXCEPT !.theme_id = {-1}]]

AssignThemesDropping(articles, original_indices, labels) ==
    [i \in DOMAIN original_indices |->
        [articles[original_indices[i]] EXCEPT !.theme_id = {labels[i]}]]

\* Lines 89-95: labels mapped back onto the original positions.
AssignThemes(articles, original_indices, labels) ==
    [k \in DOMAIN articles |->
        IF \E i \in DOMAIN original_indices : original_indices[i] = k
        THEN [articles[k] EXCEPT !.theme_id =
                {labels[CHOOSE i \in DOMAIN original_indices :
                            original_indices[i] = k]}]
        ELSE articles[k]]

\* group_by_theme (lines 18-100).  loaded: whether the sentence-transformer
\* loaded; encode_ok: whether model.encode returns.
group_by_theme(articles, loaded, encode_ok, near) ==
    IF ~loaded THEN FallbackUnique(articles)
    ELSE IF articles = <<>> THEN <<>>
    ELSE LET defaulted == DefaultNoise(articles)
             original_indices == ClusterableIdx(articles, 1)
             texts == [i \in DOMAIN original_indices |->
                          articles[original_indices[i]].full_text]
         IN IF original_indices = <<>> THEN defaulted
            ELSE IF ~encode_ok THEN defaulted
            ELSE AssignThemes(defaulted, original_indices, DBSCAN(texts, near))

\* Which path a call of group_by_theme takes.
ThemePath(articles, loaded, encode_ok) ==
    IF ~loaded THEN "model_not_loaded"
    ELSE IF articles = <<>> THEN "empty_input"
    ELSE IF ClusterableIdx(articles, 1) = <<>> THEN "no_content"
    ELSE IF ~encode_ok THEN "encode_failed"
    ELSE "clustered"

\* article.get('theme_id', -1)
ThemeOf(article) ==
    IF article.theme_id = {} THEN -1 ELSE CHOOSE t \in article.theme_id : TRUE

\* ---------------------------------- get_cached_article_data, related links
\* unique_themes (lines 46-50): the first article of each theme, in order of
\* first appearance.
RECURSIVE unique_themes(_, _, _)
unique_themes(articles, i, seen) ==
    IF i > Len(articles) THEN <<>>
    ELSE LET theme == ThemeOf(articles[i])
         IN IF theme # -1 /\ theme \notin seen
            THEN <<articles[i]>> \o unique_themes(articles, i + 1, seen \cup {theme})
            ELSE unique_themes(articles, i + 1, seen)

Min(a, b) == IF a <= b THEN a ELSE b

\* The list comprehension of lines 54-61 over every first article.
related_links_uncapped(articles) ==
    LET top == unique_themes(articles, 1, {})
    IN [i \in DOMAIN top |->
           [title |-> top[i].title, url |-> top[i].url,
            source |-> top[i].source_name]]

\* Lines 52-61.
related_links(articles) ==
    LET firsts == unique_themes(articles, 1, {})
        top == SubSeq(firsts, 1, Min(MaxLinks, Len(firsts)))
    IN [i \in DOMAIN top |->
           [title |-> top[i].title, url |-> top[i].url,
            source |-> top[i].source_name]]

\* ---------------------------------------------------- _build_vector_store
Slice(text, from, to) == [text |-> text, from |-> from, to |-> to]

\* RecursiveCharacterTextSplitter(chunk_size, chunk_overlap).split_text on a
\* text without separators: windows of chunk_size that overlap by
\* chunk_overlap.
RECURSIVE Windows(_, _)
Windows(text, start) ==
    LET end == Min(start + chunk_size, TextLen(text))
    IN IF end = TextLen(text) THEN <<Slice(text, start, end)>>
       ELSE <<Slice(text, start, end)>>
            \o Windows(text, start + chunk_size - chunk_overlap)

split_text(text) == IF TextLen(text) = 0 THEN <<>> ELSE Windows(text, 0)

\* Lines 108-113.
Metadata(article) ==
    [source |-> article.url, title |-> article.title,
     theme_id |-> ThemeOf(article), snippet |-> article.snippet]

\* Lines 115-117: the documents of one article.
Documents(article) ==
    LET chunks == split_text(article.full_text)
    IN [i \in DOMAIN chunks |->
           [page_content |-> chunks[i], metadata |-> Metadata(article)]]

IndexableAnyLength(article) == Truthy(article.full_text)

\* Line 105: not text or len(text) < 100.
Indexable(article) ==
    Truthy(article.full_text) /\ TextLen(article.full_text) >= MinChunkLen

\* all_chunks (lines 101-117).
RECURSIVE all_chunks(_, _)
all_chunks(articles, i) ==
    IF i > Len(articles) THEN <<>>
    ELSE IF Indexable(articles[i])
    THEN Documents(articles[i]) \o all_chunks(articles, i + 1)
    ELSE all_chunks(articles, i + 1)

\* A vector store: None (index FALSE) or an index over documents.
NoStore == [index |-> FALSE, docs |-> <<>>]

\* _build_vector_store (lines 96-128).  faiss_ok: whether embedding the
\* chunks and building the FAISS index succeeds.
_build_vector_store(articles, faiss_ok) ==
    LET chunks == all_chunks(articles, 1)
    IN IF chunks = <<>> THEN NoStore
       ELSE IF faiss_ok THEN [index |-> TRUE, docs |-> chunks]
       ELSE NoStore

\* ------------------------------------------------- _create_retrieval_chain
PromptTemplates == {"REPORT", "TIMELINE", "CONTRADICTIONS", "NO_CONTEXT"}

\* Whether the template names the {context} variable; the three templates
\* of the module do (lines 33-90).
HasContextVar(template) == template # "NO_CONTEXT"

\* _create_retrieval_chain (lines 130-140): create_stuff_documents_chain
\* raises ValueError on a prompt without the context variable.
_create_retrieval_chain(store, template) ==
    IF HasContextVar(template)
    THEN Return([store |-> store, template |-> template])
    ELSE [raised |-> TRUE, value |-> [store |-> store, template |-> template]]

\* --------------------------------------------------------- _format_response
Answers == {" report ", "report"}

\* str.strip()
Strip(answer) == IF answer = " report " THEN "report" ELSE answer

SourceOf(doc) == [title |-> doc.metadata.title, url |-> doc.metadata.source]

RECURSIVE SourcesLastWins(_, _)
SourcesLastWins(docs, i) ==
    IF i > Len(docs) THEN <<>>
    ELSE LET url == docs[i].metadata.source
         IN IF Truthy(url)
               /\ ~\E j \in (i + 1)..Len(docs) : docs[j].metadata.source = url
            THEN <<SourceOf(docs[i])>> \o SourcesLastWins(docs, i + 1)
            ELSE SourcesLastWins(docs, i + 1)

\* The loop of lines 149-159.
RECURSIVE Sources(_, _, _)
Sources(docs, i, seen_urls) ==
    IF i > Len(docs) THEN <<>>
    ELSE LET url == docs[i].metadata.source
         IN IF Truthy(url) /\ url \notin seen_urls
            THEN <<SourceOf(docs[i])>>
                 \o Sources(docs, i + 1, seen_urls \cup {url})
            ELSE Sources(docs, i + 1, seen_urls)

_format_response_last(resp) ==
    [answer |-> Strip(resp.answer), sources |-> SourcesLastWins(resp.context, 1)]

\* _format_response (lines 142-164).
_format_response(resp) ==
    [answer |-> Strip(resp.answer), sources |-> Sources(resp.context, 1, {})]

\* ------------------------------------------------------------ _run_rag_query
RagReturn(answer, sources) ==
    [raised |-> FALSE, answer |-> answer, sources |-> sources]

RagRaise == [raised |-> TRUE, answer |-> Null, sources |-> <<>>]

\* The sequences a top-k retriever can return from n documents: k distinct
\* positions (all of them when n <= k), in any order.
Retrievals(n) ==
    {s \in [1..Min(RetrieverK, n) -> 1..n] :
        \A a, b \in DOMAIN s : a # b => s[a] # s[b]}

\* ------------------------------------------------------------ initial state
NoResponse ==
    [status |-> 0, error |-> Null, html |-> Null, cited_sources |-> <<>>,
     related_links |-> <<>>, total_articles_found |-> 0]

NoRag == [raised |-> FALSE, answer |-> Null, sources |-> <<>>]

NoSearch == [kind |-> "not_sent", urls |-> <<>>]

FetchIdle ==
    /\ search_response = NoSearch
    /\ search_requests = 0
    /\ articles_from_api = <<>>
    /\ net = <<>>
    /\ tasks = <<>>
    /\ scraped_results = <<>>
    /\ final_articles = <<>>

ThemeIdle ==
    /\ gt_env = [called |-> FALSE, encode_ok |-> TRUE, near |-> {}]
    /\ gt_out = <<>>
    /\ related = <<>>

RagIdle ==
    /\ rq_env = [faiss_ok |-> TRUE, invoke_ok |-> TRUE, context |-> <<>>,
                 answer |-> Null]
    /\ rq_store = NoStore
    /\ rag_data = NoRag

ExtractIdle ==
    /\ ex_env = <<>>
    /\ ex_out = <<>>

\* The process after import, before a request.
Init ==
    /\ pc = "idle"
    /\ NEWS_API_KEY \in BOOLEAN
    /\ model \in BOOLEAN
    /\ llm \in BOOLEAN
    /\ endpoint = Null
    /\ FetchIdle
    /\ gt_in = <<>>
    /\ ThemeIdle
    /\ rq_in = <<>>
    /\ rq_template = Null
    /\ RagIdle
    /\ ExtractIdle
    /\ response = NoResponse

\* ------------------------------------------------------- the request handlers
Endpoints == {"/query", "/api/timeline", "/api/contradictions"}

ErrorResponse(status, message) ==
    [NoResponse EXCEPT !.status = status, !.error = message]

\* query / api_timeline / api_contradictions up to the cache lookup.
Request(ep, query) ==
    /\ pc = "idle"
    /\ endpoint' = ep
    /\ IF query = ""
       THEN /\ response' = ErrorResponse(400, "No query provided")
            /\ pc' = "done"
       ELSE /\ pc' = "fetch_news"
            /\ UNCHANGED response
    /\ UNCHANGED <<globals, extract_vars, fetch_vars, theme_vars, rag_vars>>

\* fetch_news returning resp's outcome into fetch_all_articles; an exception
\* leaves asyncio.run and get_cached_article_data returns (None, None).
FetchNewsReturns(resp) ==
    LET r == fetch_news(NEWS_API_KEY, resp)
    IN /\ search_response' = resp
       /\ articles_from_api' = r.value
       /\ IF r.raised
          THEN /\ response' = ErrorResponse(500, "Failed to fetch articles")
               /\ pc' = "done"
          ELSE /\ pc' = "fetched"
               /\ UNCHANGED response

FetchNews ==
    /\ pc = "fetch_news"
    /\ IF ~NEWS_API_KEY
       THEN /\ FetchNewsReturns(NoSearch)
            /\ UNCHANGED search_requests
       ELSE /\ \E resp \in SearchResponses : FetchNewsReturns(resp)
            /\ search_requests' = search_requests + 1
    /\ UNCHANGED <<globals, extract_vars, endpoint, net, tasks, scraped_results,
                   final_articles, theme_vars, rag_vars>>

\* No search result: fetch_all_articles returns [], get_cached_article_data
\* returns ([], []) and the handler answers 404.
NoArticles ==
    /\ pc = "fetched"
    /\ articles_from_api = <<>>
    /\ response' = ErrorResponse(404, "No articles found")
    /\ pc' = "done"
    /\ UNCHANGED <<globals, extract_vars, endpoint, fetch_vars, theme_vars, rag_vars>>

ValidUrl(url) == url # Null /\ url # ""

\* What the page fetches of the tasks can meet: a request for a missing or
\* empty url is never sent and errors at once.
NetTables(api) ==
    {t \in [DOMAIN api -> NetOutcomes] :
        \A i \in DOMAIN api : ~ValidUrl(api[i].url) => t[i] = "error"}

\* One task per search result, all handed to asyncio.gather together.
Launch ==
    /\ pc = "fetched"
    /\ articles_from_api # <<>>
    /\ \E t \in NetTables(articles_from_api) : net' = t
    /\ tasks' = [i \in DOMAIN articles_from_api |-> "awaiting"]
    /\ scraped_results' = [i \in DOMAIN articles_from_api |-> Pending]
    /\ pc' = "gather"
    /\ UNCHANGED <<globals, extract_vars, endpoint, search_response, search_requests,
                   articles_from_api, final_articles, theme_vars, rag_vars,
                   response>>

\* Task i's fetch_one_article returns.
Settle(i) ==
    /\ pc = "gather"
    /\ tasks[i] = "awaiting"
    /\ LET res == fetch_one_article(articles_from_api[i].url, net[i])
       IN /\ tasks' = SettleTask(tasks, i, res)
          /\ scraped_results' = [scraped_results EXCEPT ![i] = res]
    /\ UNCHANGED <<pc, globals, extract_vars, endpoint, search_response, search_requests,
                   articles_from_api, net, final_articles, theme_vars,
                   rag_vars, response>>

\* asyncio.wait(return_when=FIRST_COMPLETED) in place of gather.
gather_first_completed(ts) == \E i \in DOMAIN ts : ts[i] # "awaiting"

\* await asyncio.gather(*tasks) (line 132) resumes when no task is awaiting.
gather_returns(ts) == \A i \in DOMAIN ts : ts[i] # "awaiting"

\* gather returns once no task is awaiting; the merge follows, and an empty
\* merge ends in the handler's 404.
Merge ==
    /\ pc = "gather"
    /\ gather_returns(tasks)
    /\ final_articles' = merge(articles_from_api, scraped_results)
    /\ IF final_articles' = <<>>
       THEN /\ response' = ErrorResponse(404, "No articles found")
            /\ pc' = "done"
       ELSE /\ pc' = "cluster"
            /\ UNCHANGED response
    /\ UNCHANGED <<globals, extract_vars, endpoint, search_response, search_requests,
                   articles_from_api, net, tasks, scraped_results, theme_vars,
                   rag_vars>>

\* The pairs of distinct clusterable texts of the input: what eps can join.
TextPairs(input) ==
    LET ts == {input[i].full_text : i \in {j \in DOMAIN input :
                                              Clusterable(input[j])}}
    IN {{a, b} : a, b \in ts} \ {{a} : a \in ts}

\* A call group_by_theme(input): the encoder may fail, and decides which
\* texts are within eps of each other.
ClusterCall(input) ==
    LET encodes == ThemePath(input, model, TRUE) = "clustered"
    IN \E encode_ok \in (IF encodes THEN BOOLEAN ELSE {TRUE}) :
       \E near \in (IF encodes /\ encode_ok THEN SUBSET TextPairs(input)
                    ELSE {{}}) :
          /\ gt_in' = input
          /\ gt_env' = [called |-> TRUE, encode_ok |-> encode_ok,
                        near |-> near]
          /\ gt_out' = group_by_theme(input, model, encode_ok, near)

TemplateOf(ep) ==
    CASE ep = "/query" -> "REPORT"
      [] ep = "/api/timeline" -> "TIMELINE"
      [] OTHER -> "CONTRADICTIONS"

\* get_cached_article_data from the clustering on, then the handler's call
\* of get_summary_report / get_timeline / get_contradictions.
Cluster ==
    /\ pc = "cluster"
    /\ ClusterCall(final_articles)
    /\ related' = related_links(gt_out')
    /\ rq_in' = gt_out'
    /\ rq_template' = TemplateOf(endpoint)
    /\ pc' = "rag_build"
    /\ UNCHANGED <<globals, extract_vars, endpoint, fetch_vars, rq_env, rq_store,
                   rag_data, response>>

\* _run_rag_query, lines 175-181: the model check and the vector store.
RagBuild ==
    /\ pc = "rag_build"
    /\ IF ~llm
       THEN /\ rag_data' = RagReturn("Error: RAG models are not loaded.", <<>>)
            /\ pc' = "rag_done"
            /\ UNCHANGED <<rq_env, rq_store>>
       ELSE \E faiss_ok \in (IF all_chunks(rq_in, 1) = <<>> THEN {TRUE}
                             ELSE BOOLEAN) :
            /\ rq_env' = [rq_env EXCEPT !.faiss_ok = faiss_ok]
            /\ rq_store' = _build_vector_store(rq_in, faiss_ok)
            /\ IF ~rq_store'.index
               THEN /\ rag_data' = RagReturn(
                        "No articles with enough content to build an answer.",
                        <<>>)
                    /\ pc' = "rag_done"
               ELSE /\ pc' = "rag_chain"
                    /\ UNCHANGED rag_data
    /\ UNCHANGED <<globals, extract_vars, endpoint, fetch_vars, theme_vars, rq_in,
                   rq_template, response>>

\* _run_rag_query, line 184: outside any try.
RagChain ==
    /\ pc = "rag_chain"
    /\ IF _create_retrieval_chain(rq_store, rq_template).raised
       THEN /\ rag_data' = RagRaise
            /\ pc' = "rag_done"
       ELSE /\ pc' = "rag_invoke"
            /\ UNCHANGED rag_data
    /\ UNCHANGED <<globals, extract_vars, endpoint, fetch_vars, theme_vars, rq_in,
                   rq_template, rq_env, rq_store, response>>

\* _run_rag_query, lines 186-195: the chain is invoked and its response
\* formatted.
RagInvoke ==
    /\ pc = "rag_invoke"
    /\ \E invoke_ok \in BOOLEAN :
          IF ~invoke_ok
          THEN /\ rq_env' = [rq_env EXCEPT !.invoke_ok = FALSE]
               /\ rag_data' = RagReturn("Error: The AI query failed.", <<>>)
          ELSE \E r \in Retrievals(Len(rq_store.docs)), answer \in Answers :
               LET context == [i \in DOMAIN r |-> rq_store.docs[r[i]]]
                   formatted == _format_response(
                       [answer |-> answer, context |-> context])
               IN /\ rq_env' = [rq_env EXCEPT !.context = context,
                                              !.answer = answer]
                  /\ rag_data' = RagReturn(formatted.answer,
                                           formatted.sources)
    /\ pc' = "rag_done"
    /\ UNCHANGED <<globals, extract_vars, endpoint, fetch_vars, theme_vars, rq_in,
                   rq_template, rq_store, response>>

\* markdown2.markdown
Markdown(text) == "<p>" \o text \o "</p>"

\* The handler's final JSON; an exception out of _run_rag_query is an
\* unhandled fault of the handler.
Respond ==
    /\ pc = "rag_done"
    /\ endpoint # Null
    /\ response' =
         IF rag_data.raised THEN ErrorResponse(500, "Internal Server Error")
         ELSE [status |-> 200, error |-> Null,
               html |-> Markdown(rag_data.answer),
               cited_sources |-> rag_data.sources,
               related_links |-> IF endpoint = "/query" THEN related
                                 ELSE <<>>,
               total_articles_found |-> IF endpoint = "/query"
                                        THEN Len(gt_out) ELSE 0]
    /\ pc' = "done"
    /\ UNCHANGED <<globals, extract_vars, endpoint, fetch_vars, theme_vars, rag_vars>>

Next ==
    \/ \E ep \in Endpoints, query \in {"", "q"} : Request(ep, query)
    \/ FetchNews
    \/ NoArticles
    \/ Launch
    \/ \E i \in DOMAIN tasks : Settle(i)
    \/ Merge
    \/ Cluster
    \/ RagBuild
    \/ RagChain
    \/ RagInvoke
    \/ Respond

Spec == Init /\ [][Next]_vars

\* ------------------------------------------- direct calls of group_by_theme
ClusterTexts == {Null, "pA", "pB", "pC", "pD"}

InputUrls == <<"u1", "u2", "u1", "u2">>

InputArticle(i, url, text) ==
    Article(ApiArticle(i, url), text,
            IF text = Null THEN Null ELSE Snippet(text))

ClusterInputs ==
    {[i \in DOMAIN texts |-> InputArticle(i, InputUrls[i], texts[i])] :
        texts \in SeqsUpTo(MaxArticles, ClusterTexts)}

InitCluster ==
    /\ pc = "call_group_by_theme"
    /\ NEWS_API_KEY = TRUE
    /\ model \in BOOLEAN
    /\ llm = TRUE
    /\ endpoint = Null
    /\ FetchIdle
    /\ gt_in \in ClusterInputs
    /\ ThemeIdle
    /\ rq_in = <<>>
    /\ rq_template = Null
    /\ RagIdle
    /\ ExtractIdle
    /\ response = NoResponse

\* group_by_theme(gt_in) called on its own.
DirectCluster ==
    /\ pc = "call_group_by_theme"
    /\ ClusterCall(gt_in)
    /\ pc' = "returned"
    /\ UNCHANGED <<globals, extract_vars, endpoint, fetch_vars, related, rag_vars, response>>

NextCluster == DirectCluster

SpecCluster == InitCluster /\ [][NextCluster]_vars

\* ------------------------------------------- direct calls of _run_rag_query
RagTexts == {"pC", "pD", "pL"}

RagUrls == {"", "u1", "u2"}

RagInputs ==
    {[i \in DOMAIN a |->
         [InputArticle(i, a[i][1], a[i][2]) EXCEPT !.theme_id = {-1}]] :
        a \in SeqsUpTo(MaxRagArticles, RagUrls \X RagTexts)}

InitRag ==
    /\ pc = "rag_build"
    /\ NEWS_API_KEY = TRUE
    /\ model = TRUE
    /\ llm \in BOOLEAN
    /\ endpoint = Null
    /\ FetchIdle
    /\ gt_in = <<>>
    /\ ThemeIdle
    /\ rq_in \in RagInputs
    /\ rq_template \in PromptTemplates
    /\ RagIdle
    /\ ExtractIdle
    /\ response = NoResponse

NextRag == RagBuild \/ RagChain \/ RagInvoke

SpecRag == InitRag /\ [][NextRag]_vars

\* -------------------------------------- direct calls of _build_vector_store
IndexTexts == {Null, "pC", "pD", "pL"}

\* theme_id of an article handed to the index builder: absent, noise, a theme.
IndexThemes == {{}, {-1}, {0}}

IndexInputs ==
    {[i \in DOMAIN a |->
         [InputArticle(i, InputUrls[i], a[i][1]) EXCEPT !.theme_id = a[i][2]]] :
        a \in SeqsUpTo(MaxRagArticles, IndexTexts \X IndexThemes)}

InitIndex ==
    /\ pc = "call_build_vector_store"
    /\ NEWS_API_KEY = TRUE
    /\ model = TRUE
    /\ llm = TRUE
    /\ endpoint = Null
    /\ FetchIdle
    /\ gt_in = <<>>
    /\ ThemeIdle
    /\ rq_in \in IndexInputs
    /\ rq_template = Null
    /\ RagIdle
    /\ ExtractIdle
    /\ response = NoResponse

\* _build_vector_store(rq_in) called on its own.
BuildIndex ==
    /\ pc = "call_build_vector_store"
    /\ \E faiss_ok \in BOOLEAN :
          /\ rq_env' = [rq_env EXCEPT !.faiss_ok = faiss_ok]
          /\ rq_store' = _build_vector_store(rq_in, faiss_ok)
    /\ pc' = "index_returned"
    /\ UNCHANGED <<globals, extract_vars, endpoint, fetch_vars, theme_vars, rq_in,
                   rq_template, rag_data, response>>

NextIndex == BuildIndex

SpecIndex == InitIndex /\ [][NextIndex]_vars

\* ------------------------------------- fetch_all_articles, fairly scheduled
\* fetch_all_articles at line 119: fetch_news has returned a list.
InitGather ==
    /\ pc = "fetched"
    /\ NEWS_API_KEY = TRUE
    /\ model = TRUE
    /\ llm = TRUE
    /\ endpoint = "/query"
    /\ \E resp \in SearchResponses :
          /\ resp.kind = "ok"
          /\ search_response = resp
          /\ articles_from_api = fetch_news(TRUE, resp).value
    /\ search_requests = 1
    /\ net = <<>>
    /\ tasks = <<>>
    /\ scraped_results = <<>>
    /\ final_articles = <<>>
    /\ gt_in = <<>>
    /\ ThemeIdle
    /\ rq_in = <<>>
    /\ rq_template = Null
    /\ RagIdle
    /\ ExtractIdle
    /\ response = NoResponse

SettleSome == \E i \in DOMAIN tasks : Settle(i)

NextGather == NoArticles \/ Launch \/ SettleSome \/ Merge

\* The event loop runs every coroutine that can proceed, and client.get
\* returns or raises within its timeout of 10 seconds.
SpecGather ==
    /\ InitGather
    /\ [][NextGather]_vars
    /\ WF_vars(NoArticles)
    /\ WF_vars(Launch)
    /\ WF_vars(SettleSome)
    /\ WF_vars(Merge)

\* ----------------------- get_cached_article_data from the clustering step on
LinkTexts == {"p0", "pB", "pD"}

LinkUrls == <<"u1", "u2", "u3", "u4", "u5", "u6", "u7", "u8">>

\* get_cached_article_data at line 43: every search result was scraped.
InitLinks ==
    /\ pc = "cluster"
    /\ NEWS_API_KEY = TRUE
    /\ model \in BOOLEAN
    /\ llm = TRUE
    /\ endpoint = "/query"
    /\ \E texts \in SeqsUpTo(MaxLinkArticles, LinkTexts) \ {<<>>} :
          LET urls == [i \in DOMAIN texts |-> LinkUrls[i]]
          IN /\ search_response = [kind |-> "ok", urls |-> urls]
             /\ articles_from_api = [i \in DOMAIN texts |->
                                        ApiArticle(i, urls[i])]
             /\ net = texts
             /\ tasks = [i \in DOMAIN texts |-> "done"]
             /\ scraped_results = [i \in DOMAIN texts |->
                                      fetch_one_article(urls[i], texts[i])]
    /\ search_requests = 1
    /\ final_articles = merge(articles_from_api, scraped_results)
    /\ gt_in = <<>>
    /\ ThemeIdle
    /\ rq_in = <<>>
    /\ rq_template = Null
    /\ RagIdle
    /\ ExtractIdle
    /\ response = NoResponse

NextLinks == Cluster

SpecLinks == InitLinks /\ [][NextLinks]_vars

\* ------------------------------------------------ extract_text, get_news
\* What an extractor can meet: an exception ("raise"), no text at all (Null,
\* the fallback only), or a text named by its length around the threshold.
ExtLen(text) ==
    CASE text = "n300" -> MinExtractLen
      [] text = "n301" -> MinExtractLen + 1
      [] text = "t300" -> MinExtractLen
      [] text = "t301" -> MinExtractLen + 1
      [] OTHER -> 0

PrimaryOutcomes == {"raise", "", "n300", "n301"}

FallbackOutcomes == {"raise", Null, "", "t300", "t301"}

extract_text_at_least(primary, fallback) ==
    IF primary # "raise" /\ ExtLen(primary) >= MinExtractLen THEN primary
    ELSE IF fallback \notin {"raise", Null, ""}
            /\ ExtLen(fallback) >= MinExtractLen
    THEN fallback
    ELSE ""

\* extract_text (article_extractor.py lines 4-25): both extractors run under
\* a bare except.
extract_text(primary, fallback) ==
    IF primary # "raise" /\ ExtLen(primary) > MinExtractLen THEN primary
    ELSE IF fallback \notin {"raise", Null, ""}
            /\ ExtLen(fallback) > MinExtractLen
    THEN fallback
    ELSE ""

ExtractEnvs ==
    SeqsUpTo(MaxExtractArticles,
             [primary : PrimaryOutcomes, fallback : FallbackOutcomes])
    \ {<<>>}

\* get_news at line 15: the search returned articles.
InitExtract ==
    /\ pc = "get_news_loop"
    /\ NEWS_API_KEY = TRUE
    /\ model = TRUE
    /\ llm = TRUE
    /\ endpoint = Null
    /\ FetchIdle
    /\ gt_in = <<>>
    /\ ThemeIdle
    /\ rq_in = <<>>
    /\ rq_template = Null
    /\ RagIdle
    /\ ex_env \in ExtractEnvs
    /\ ex_out = <<>>
    /\ response = NoResponse

\* One iteration of the loop of get_news (main.py lines 16-19).
ExtractNext ==
    /\ pc = "get_news_loop"
    /\ Len(ex_out) < Len(ex_env)
    /\ LET e == ex_env[Len(ex_out) + 1]
       IN ex_out' = Append(ex_out, extract_text(e.primary, e.fallback))
    /\ UNCHANGED <<pc, globals, ex_env, endpoint, fetch_vars, theme_vars,
                   rag_vars, response>>

\* After the loop (main.py lines 21-24): no text at all ends the request.
ExtractEnd ==
    /\ pc = "get_news_loop"
    /\ Len(ex_out) = Len(ex_env)
    /\ IF \A k \in DOMAIN ex_out : ex_out[k] = ""
       THEN /\ response' = ErrorResponse(
                   200, "Failed to extract text from all articles.")
            /\ pc' = "done"
       ELSE /\ pc' = "summarize"
            /\ UNCHANGED response
    /\ UNCHANGED <<globals, extract_vars, endpoint, fetch_vars, theme_vars,
                   rag_vars>>

NextExtract == ExtractNext \/ ExtractEnd

SpecExtract == InitExtract /\ [][NextExtract]_vars

\* ================================================================== claims
\* The merge of fetch_all_articles has run.
MergeDone == tasks # <<>> /\ pc # "gather"

\* The positions of the search results whose own scrape succeeded, in order.
RECURSIVE Survivors(_)
Survivors(i) ==
    IF i > Len(scraped_results) THEN <<>>
    ELSE IF scraped_results[i].status = "success"
    THEN <<i>> \o Survivors(i + 1)
    ELSE Survivors(i + 1)

\* C1: for every non-empty search result list, duplicates of a url included,
\* fetch_all_articles returns len(search results) - (failed scrapes)
\* articles, the survivors in the order of the search results.
C1_CountAndOrder ==
    MergeDone =>
        LET surv == Survivors(1)
        IN /\ Len(final_articles) = Len(articles_from_api)
                - Cardinality({i \in DOMAIN scraped_results :
                                  scraped_results[i].status # "success"})
           /\ Len(final_articles) = Len(surv)
           /\ \A k \in DOMAIN final_articles :
                 k \in DOMAIN surv
                 => final_articles[k].title = articles_from_api[surv[k]].title

\* C2: a fetch that times out or raises is marked failed for its own slot
\* only: every settled slot holds the outcome its own url and its own page
\* fetch determine, whatever the other fetches met, no task is ever
\* cancelled, and gather returns only when every task has settled.
C2_FetchIsolation ==
    \A i \in DOMAIN tasks :
        LET r == scraped_results[i]
            url == articles_from_api[i].url
        IN /\ tasks[i] \in {"awaiting", "done"}
           /\ tasks[i] = "awaiting" => r = Pending
           /\ tasks[i] = "done" =>
                 /\ r.url = url
                 /\ r.status \in {"success", "failed"}
                 /\ r.status = "success" <=> (ValidUrl(url) /\ net[i] \in Pages)
                 /\ r.status = "success" => r.full_text = net[i]
                 /\ r.status = "failed" => r.full_text = Null
           /\ pc # "gather" => tasks[i] = "done"

\* A fetch timed out, and a sibling that was still awaiting then succeeded.
C2_Witness ==
    \E i, j \in DOMAIN tasks :
        /\ i # j
        /\ net[i] = "timeout"
        /\ scraped_results[i].status = "failed"
        /\ tasks[j] = "done"
        /\ scraped_results[j].status = "success"
        /\ scraped_results[j].full_text = "pD"

\* C3: every returned article has a non-empty url and a non-null full_text
\* taken from a successful scrape of that url, and a search result whose own
\* scrape failed is never returned.
C3_OnlyScrapedArticles ==
    MergeDone =>
        \A k \in DOMAIN final_articles :
            LET a == final_articles[k]
            IN /\ ValidUrl(a.url)
               /\ a.full_text # Null
               /\ \E j \in DOMAIN scraped_results :
                     /\ scraped_results[j].status = "success"
                     /\ scraped_results[j].url = a.url
                     /\ scraped_results[j].full_text = a.full_text
               /\ \A i \in DOMAIN articles_from_api :
                     articles_from_api[i].title = a.title
                     => scraped_results[i].status = "success"

\* The path the last call of group_by_theme took.
PathTaken == ThemePath(gt_in, model, gt_env.encode_ok)

\* C4: on every path of group_by_theme the returned sequence has the length
\* of the input and the same articles at the same positions, every article
\* carries exactly one integer theme_id, and no other field is changed.
C4_ThemeFrame ==
    gt_env.called =>
        /\ Len(gt_out) = Len(gt_in)
        /\ \A i \in DOMAIN gt_out :
              /\ i \in DOMAIN gt_in
              /\ Cardinality(gt_out[i].theme_id) = 1
              /\ gt_out[i].theme_id \subseteq Int
              /\ [gt_out[i] EXCEPT !.theme_id = {}]
                    = [gt_in[i] EXCEPT !.theme_id = {}]

\* Real clustering with an article left out of it between two clustered ones.
C4_Witness ==
    /\ gt_env.called
    /\ PathTaken = "clustered"
    /\ Len(gt_out) = 3
    /\ ~Clusterable(gt_in[2])
    /\ ThemeOf(gt_out[1]) = 0
    /\ ThemeOf(gt_out[2]) = -1
    /\ ThemeOf(gt_out[3]) = 0

\* Every theme id is -1 or non-negative, and every id other than -1 is
\* shared by at least min_samples articles.
NoSingletonTheme ==
    \A i \in DOMAIN gt_out :
        /\ ThemeOf(gt_out[i]) >= -1
        /\ ThemeOf(gt_out[i]) # -1 =>
              Cardinality({j \in DOMAIN gt_out :
                              ThemeOf(gt_out[j]) = ThemeOf(gt_out[i])})
                 >= min_samples

\* C5 as stated: in every output of group_by_theme each theme_id is -1 or
\* non-negative and no article is the sole member of a non-noise theme.
C5_NoSingletonTheme == gt_env.called => NoSingletonTheme

\* C5 as amended: in every output of group_by_theme computed with the model
\* loaded, each theme_id is -1 or non-negative and every theme_id other than
\* -1 is shared by at least 2 articles.
C5_NoSingletonThemeWhenLoaded ==
    (gt_env.called /\ model) => NoSingletonTheme

\* A two-article theme next to a clusterable article left as noise.
C5_Witness ==
    /\ gt_env.called
    /\ model
    /\ PathTaken = "clustered"
    /\ \E i, j, k \in DOMAIN gt_out :
          /\ i # j
          /\ ThemeOf(gt_out[i]) = 0
          /\ ThemeOf(gt_out[j]) = 0
          /\ Clusterable(gt_in[k])
          /\ ThemeOf(gt_out[k]) = -1

\* C6: when the embedding step fails outright (model not loaded, or encode
\* raising) the result is uniform: every article has a distinct identifier,
\* or every article has -1.
C6_UniformFallback ==
    (gt_env.called /\ PathTaken \in {"model_not_loaded", "encode_failed"}) =>
        \/ \A i \in DOMAIN gt_out : gt_out[i].theme_id = {-1}
        \/ \A i, j \in DOMAIN gt_out :
              /\ ThemeOf(gt_out[i]) >= 0
              /\ i # j => ThemeOf(gt_out[i]) # ThemeOf(gt_out[j])

\* The model is not loaded and the input mixes articles with and without
\* enough text.
C6_Witness ==
    /\ gt_env.called
    /\ PathTaken = "model_not_loaded"
    /\ Len(gt_out) = 3
    /\ Clusterable(gt_in[1])
    /\ ~Clusterable(gt_in[2])
    /\ ~Clusterable(gt_in[3])
    /\ ThemeOf(gt_out[3]) = 2

\* _format_response has run on a chain response.
Formatted == pc = "rag_done" /\ rq_env.answer # Null

\* The first position of the context whose chunk bears url.
FirstBearing(url) ==
    CHOOSE k \in DOMAIN rq_env.context :
        /\ rq_env.context[k].metadata.source = url
        /\ \A m \in 1..(k - 1) : rq_env.context[m].metadata.source # url

\* C7: the urls of the returned sources are pairwise distinct, each source is
\* the {title, url} of the first retrieved chunk bearing that url, and the
\* sources are in the order of first appearance of their url.
C7_SourcesDedup ==
    Formatted =>
        LET src == rag_data.sources
            ctx == rq_env.context
        IN /\ \A i \in DOMAIN src :
                 /\ \E k \in DOMAIN ctx : ctx[k].metadata.source = src[i].url
                 /\ src[i].title = ctx[FirstBearing(src[i].url)].metadata.title
           /\ \A i, j \in DOMAIN src :
                 i < j => /\ src[i].url # src[j].url
                          /\ FirstBearing(src[i].url) < FirstBearing(src[j].url)

\* A chunk of another url retrieved between the two chunks of a long
\* article: three chunks, two sources.
C7_Witness ==
    /\ Formatted
    /\ Len(rq_env.context) = 3
    /\ rq_env.context[1].metadata.source = "u2"
    /\ rq_env.context[2].metadata.source = "u1"
    /\ rq_env.context[3].metadata.source = "u2"
    /\ rag_data.sources = <<[title |-> "t1", url |-> "u2"],
                            [title |-> "t2", url |-> "u1"]>>

\* C8: _run_rag_query never propagates an exception: every failure yields an
\* explanatory answer and an empty sources list.
C8_NeverRaises ==
    pc = "rag_done" =>
        /\ ~rag_data.raised
        /\ rag_data.answer # Null
        /\ (~llm \/ ~rq_env.faiss_ok \/ ~rq_env.invoke_ok)
              => rag_data.sources = <<>>

\* C9: _build_vector_store returns None exactly when zero chunks are
\* produced, and _run_rag_query reports the insufficient-content outcome
\* only then.
C9_NoneOnlyWhenNoChunks ==
    (llm /\ pc \in {"rag_chain", "rag_invoke", "rag_done"}) =>
        /\ ~rq_store.index <=> all_chunks(rq_in, 1) = <<>>
        /\ rag_data.answer
              = "No articles with enough content to build an answer."
           => all_chunks(rq_in, 1) = <<>>

\* The search step of a request with a query has run.
SearchDone == pc \notin {"idle", "fetch_news"} /\ response.status # 400

\* The search step yielded nothing: no key, an API error, or zero results.
SearchEmpty ==
    \/ search_response.kind \in SearchFailures \cup {"not_sent"}
    \/ search_response.urls = <<>>

\* C10: when the search yields nothing, fetch_news returns an empty sequence
\* after at most one request, no scrape is launched, neither clustering nor
\* synthesis is invoked, and the handler ends in "No articles found".
C10_EmptySearchTerminal ==
    (SearchDone /\ SearchEmpty) =>
        /\ articles_from_api = <<>>
        /\ search_requests <= 1
        /\ tasks = <<>>
        /\ net = <<>>
        /\ ~gt_env.called
        /\ rag_data = NoRag
        /\ pc \in {"fetched", "done"}
        /\ pc = "done" => response = ErrorResponse(404, "No articles found")

\* An HTTP error of the search API ended in the 404 response.
C10_Witness ==
    /\ pc = "done"
    /\ search_response.kind = "http_error"
    /\ search_requests = 1
    /\ response.status = 404

\* The documents of the store built from the article at position i.
DocsOf(i) ==
    {k \in DOMAIN rq_store.docs :
        rq_store.docs[k].metadata.title = rq_in[i].title}

C12_ExtractText ==
    \A k \in DOMAIN ex_out :
        LET e == ex_env[k]
            primary_ok == e.primary # "raise"
                          /\ ExtLen(e.primary) > MinExtractLen
            fallback_ok == e.fallback \notin {"raise", Null}
                           /\ ExtLen(e.fallback) > MinExtractLen
        IN /\ ex_out[k] \notin {"raise", Null}
           /\ ex_out[k] = "" \/ ExtLen(ex_out[k]) > MinExtractLen
           /\ primary_ok => ex_out[k] = e.primary
           /\ (~primary_ok /\ fallback_ok) => ex_out[k] = e.fallback
           /\ (~primary_ok /\ ~fallback_ok) => ex_out[k] = ""

\* The primary extractor raised on one article and gave a text of exactly
\* the threshold on the other; the fallback was long enough once and failed
\* once.
C12_Witness ==
    /\ pc = "summarize"
    /\ Len(ex_out) = 2
    /\ ex_env[1].primary = "raise"
    /\ ex_out[1] = "t301"
    /\ ex_env[2].primary = "n300"
    /\ ex_env[2].fallback = "t300"
    /\ ex_out[2] = ""

\* C13: in fetch_all_articles every per-article fetch is launched in one
\* step, the merge starts only when every launched fetch has returned its
\* success or failed record, and under fair scheduling fetch_all_articles
\* returns whichever fetches fail.
C13_WaitForAllJoin ==
    /\ [][(pc = "fetched" /\ pc' = "gather") =>
            /\ DOMAIN tasks' = DOMAIN articles_from_api
            /\ \A i \in DOMAIN tasks' : tasks'[i] = "awaiting"]_vars
    /\ [][(pc = "gather" /\ pc' # "gather") =>
            \A i \in DOMAIN tasks :
                /\ tasks[i] = "done"
                /\ scraped_results[i].status \in {"success", "failed"}]_vars
    /\ (pc = "fetched") ~> (pc \in {"done", "cluster"})
    /\ \A failing \in SUBSET (1..MaxResults) :
          (pc = "gather"
           /\ failing = {i \in DOMAIN tasks :
                            ~ValidUrl(articles_from_api[i].url)
                            \/ net[i] \in NetFailures})
          ~> (pc # "gather"
              /\ failing = {i \in DOMAIN tasks :
                               scraped_results[i].status = "failed"})

\* fetch_all_articles returned after one fetch had failed on a network
\* error and another had succeeded.
C13_Witness ==
    /\ pc = "cluster"
    /\ Len(tasks) = 2
    /\ net[1] = "error"
    /\ scraped_results[1].status = "failed"
    /\ scraped_results[2].status = "success"
    /\ Len(final_articles) = 1

\* The position in the clustered list of the article link k was built from.
LinkedArticle(k) ==
    CHOOSE i \in DOMAIN gt_out :
        /\ gt_out[i].title = related[k].title
        /\ gt_out[i].url = related[k].url
        /\ gt_out[i].source_name = related[k].source

\* C14: the related links built from a clustered article list are at most 5,
\* each is built from an article of that list whose theme_id is not -1 and
\* which is the first article of its theme, no two links share a theme, and
\* the links follow the order in which their themes first appear.
C14_RelatedLinks ==
    pc = "rag_build" =>
        /\ Len(related) <= MaxLinks
        /\ \A k \in DOMAIN related :
              /\ \E i \in DOMAIN gt_out :
                    /\ gt_out[i].title = related[k].title
                    /\ gt_out[i].url = related[k].url
                    /\ gt_out[i].source_name = related[k].source
              /\ DOMAIN related[k] = {"title", "url", "source"}
              /\ ThemeOf(gt_out[LinkedArticle(k)]) # -1
              /\ \A j \in 1..(LinkedArticle(k) - 1) :
                    ThemeOf(gt_out[j]) # ThemeOf(gt_out[LinkedArticle(k)])
        /\ \A k1, k2 \in DOMAIN related :
              k1 < k2 =>
                 /\ ThemeOf(gt_out[LinkedArticle(k1)])
                       # ThemeOf(gt_out[LinkedArticle(k2)])
                 /\ LinkedArticle(k1) < LinkedArticle(k2)

\* Six articles of six themes: the sixth theme has no link.
C14_Witness ==
    /\ pc = "rag_build"
    /\ Len(gt_out) = 6
    /\ \A i \in DOMAIN gt_out : ThemeOf(gt_out[i]) = i - 1
    /\ Len(related) = MaxLinks
    /\ related[MaxLinks].title = "t5"

\* Two clusters behind an unclustered article: one link for each cluster.
C14_WitnessClusters ==
    /\ pc = "rag_build"
    /\ Len(gt_out) = 5
    /\ ThemeOf(gt_out[1]) = -1
    /\ ThemeOf(gt_out[2]) = ThemeOf(gt_out[4])
    /\ ThemeOf(gt_out[3]) = ThemeOf(gt_out[5])
    /\ ThemeOf(gt_out[2]) # ThemeOf(gt_out[3])
    /\ Len(related) = 2
    /\ related[1].title = "t2"
    /\ related[2].title = "t3"

====
